---- MODULE Spec2Model ----
(***************************************************************************)
(* McpServer of mcp-wallet: the tool registry, the call handler with its   *)
(* error-message-as-JSON channel, the pending-confirmation map and the     *)
(* confirmTransaction / rejectTransaction control surface.                 *)
(*                                                                         *)
(* Strings are modelled by what JSON.parse does with them: [text |-> t] is *)
(* a string that is not a JSON document, [json |-> v] is the string        *)
(* JSON.stringify(v). The wallet (EvmMcpWallet over ethers) is the         *)
(* environment: each of its operations is invoked at the await and         *)
(* settles later with a value, an Error or a thrown non-Error.             *)
(***************************************************************************)
EXTENDS Integers, Sequences, FiniteSets, Bags, TLC

\* ---------------------------------------------------------------- bounds
MaxIds == 2
MaxTime == 1
MaxStarts == 2
MaxInflight == 2
MaxToolInflight == 1
MaxSends == 2
MaxAccountIndex == 1

\* ------------------------------------------------------------ vocabulary
Ids == 1..MaxIds

\* a value that is no confirmation id
NoId == CHOOSE n \in 0..MaxIds : n \notin Ids

\* the configuration the constructor falls back to
DefaultConfig ==
    [allowedOperations |-> <<"read", "prepare", "info">>, requireConfirmation |-> TRUE]

\* server configurations: the default one, the transaction tier with and
\* without the confirmation flag, tiers listed out of registration order,
\* and no tier at all
ConfigChoices ==
    { [allowedOperations |-> <<"read", "prepare", "info">>, requireConfirmation |-> TRUE],
      [allowedOperations |-> <<"transaction">>, requireConfirmation |-> TRUE],
      [allowedOperations |-> <<"transaction">>, requireConfirmation |-> FALSE],
      [allowedOperations |-> <<"transaction", "read">>, requireConfirmation |-> TRUE],
      [allowedOperations |-> <<"transaction", "info", "prepare", "read">>,
       requireConfirmation |-> FALSE],
      [allowedOperations |-> << >>, requireConfirmation |-> TRUE] }

\* A parameter string, by the features the schemas' patterns look at: its
\* prefix, the widest class of the characters after it, and their number.
Str(prefix, class, len) == [prefix |-> prefix, class |-> class, len |-> len]

AddressHexLen == 40

ValidAddress == Str("0x", "hex", AddressHexLen)

ShortAddress == Str("0x", "hex", AddressHexLen - 1)

\* "1000" and "abc"
Digits1000 == Str("", "digits", 4)

ValueAbc == Str("", "hex", 3)

\* request parameters of wallet_sendTransaction calls
ParamsChoices ==
    { [to |-> ValidAddress, value |-> Digits1000],
      [to |-> ValidAddress, value |-> ValueAbc] }

\* request parameters of wallet_signTransaction calls: valid, an address that
\* fails the pattern, a missing required field
SignParamsChoices ==
    { [to |-> ValidAddress, value |-> Digits1000],
      [to |-> ShortAddress, value |-> Digits1000],
      [to |-> ValidAddress] }

TokenParamsChoices == { [token |-> ValidAddress] }

\* an object without properties
NoParams == [f \in {} |-> Str("", "digits", 0)]

ParamsFor(name) ==
    CASE name = "wallet_sendTransaction" -> ParamsChoices
      [] name = "wallet_signTransaction" -> SignParamsChoices
      [] name = "wallet_getTokenBalance" -> TokenParamsChoices
      [] OTHER -> { NoParams }

\* pattern: '^0x[a-fA-F0-9]{40}$'
MatchesAddress(s) ==
    s.prefix = "0x" /\ s.class \in {"digits", "hex"} /\ s.len = AddressHexLen

\* pattern: '^[0-9]+$'
MatchesDigits(s) == s.prefix = "" /\ s.class = "digits" /\ s.len >= 1

\* The inputSchema each tool declares: required, additionalProperties: false
\* and the patterns of its properties.
ValidParams(name, p) ==
    CASE name \in {"wallet_signTransaction", "wallet_sendTransaction"} ->
            /\ {"to", "value"} \subseteq DOMAIN p
            /\ DOMAIN p \subseteq {"to", "value", "data"}
            /\ MatchesAddress(p.to)
            /\ MatchesDigits(p.value)
      [] name = "wallet_getTokenBalance" ->
            /\ "token" \in DOMAIN p
            /\ DOMAIN p \subseteq {"token", "decimals"}
            /\ MatchesAddress(p.token)
      [] OTHER -> DOMAIN p = {}

RequestNames ==
    { "wallet_getAddress", "wallet_getBalance", "wallet_signTransaction",
      "wallet_getTokenBalance", "wallet_sendTransaction", "wallet_unknown" }

Includes(seq, x) == \E i \in 1..Len(seq) : seq[i] = x

\* ----------------------------------------------------------------- state
VARIABLES walletConfig, wallet, config, tools, starts, connected,
          pendingConfirmations, issued, now, sent, toolSends, inflight, lastOp

vars == << walletConfig, wallet, config, tools, starts, connected,
           pendingConfirmations, issued, now, sent, toolSends, inflight, lastOp >>

\* ------------------------------------------------------- strings and JSON
Text(t) == [text |-> t]

TextWith(t, x) == [text |-> t, arg |-> x]

JSONstringify(v) == [json |-> v]

IsJSONText(s) == "json" \in DOMAIN s

JSONparse(s) == s.json

JSNull == [prim |-> "null"]

JSNumber == [prim |-> "123"]

MkError(msg) == [isError |-> TRUE, message |-> msg]

NonError == [isError |-> FALSE, message |-> Text("")]

\* The structured error thrown by the wallet_sendTransaction handler.
NeedConfirmationError(txId) ==
    MkError(JSONstringify(
        [code |-> "NEED_CONFIRMATION",
         message |-> JSONstringify(
             [zh |-> TextWith("pending-zh (ID: ${txId})", txId),
              en |-> TextWith("Transaction pending confirmation (ID: ${txId})", txId)])]))

\* a catch block that never parses the message
CatchResponse_NoParse(error) ==
    IF error.isError
    THEN [error |-> [code |-> "TOOL_ERROR", message |-> error.message]]
    ELSE [error |-> [code |-> "UNKNOWN_ERROR",
                     message |-> Text("An unknown error occurred")]]

\* The catch block of the CallToolRequestSchema handler.
CatchResponse(error) ==
    IF error.isError
    THEN IF IsJSONText(error.message) /\ JSONparse(error.message) # JSNull
         THEN [error |-> JSONparse(error.message)]
         ELSE [error |-> [code |-> "TOOL_ERROR", message |-> error.message]]
    ELSE [error |-> [code |-> "UNKNOWN_ERROR",
                     message |-> Text("An unknown error occurred")]]

\* --------------------------------------------------- wallet configuration
\* a field that is not set
Undefined == [undefined |-> TRUE]

Num(n) == [num |-> n]

\* JavaScript truthiness of an optional string or number field
Truthy(v) == v \notin { Undefined, Text(""), Num(0) }

\* A derivation path, by what the constructor looks at: the text before the
\* last '/' and the number after it.
Path(stem, last) == [stem |-> stem, last |-> last]

DefaultPath == Path("m/44'/60'/0'/0", 0)

TestPrivateKey ==
    Text("0xabcdef1234567890abcdef1234567890abcdef1234567890abcdef1234567890")

TestMnemonic == Text("test test test test test test test test test test test junk")

TestAddress == Text("0xYourAddress")

WalletConfigOf(pk, mn, addr, path, idx) ==
    [privateKey |-> pk, mnemonic |-> mn, address |-> addr,
     derivationPath |-> path, accountIndex |-> idx]

WalletConfigChoices ==
    { WalletConfigOf(pk, mn, addr, path, idx) :
        pk \in { Undefined, Text(""), TestPrivateKey },
        mn \in { Undefined, TestMnemonic },
        addr \in { Undefined, TestAddress },
        path \in { Undefined, Path("m/44'/60'/0'/0", 1) },
        idx \in { Undefined } \cup { Num(n) : n \in 0..MaxAccountIndex } }

\* the configuration of the wallet under test: a private key only
TestWalletConfig ==
    WalletConfigOf(TestPrivateKey, Undefined, Undefined, Undefined, Undefined)

\* derivationPath.endsWith('/0') && accountIndex > 0
\*     ? derivationPath.slice(0, -1) + accountIndex : derivationPath
DerivedPath(cfg) ==
    LET derivationPath == IF Truthy(cfg.derivationPath)
                          THEN cfg.derivationPath ELSE DefaultPath
        accountIndex == IF Truthy(cfg.accountIndex) THEN cfg.accountIndex.num ELSE 0
    IN  IF derivationPath.last = 0 /\ accountIndex > 0
        THEN Path(derivationPath.stem, accountIndex)
        ELSE derivationPath

NoKey == [from |-> "none"]

\* no constructor has run
NotConstructed == [state |-> "none", key |-> NoKey, thrown |-> NonError]

Ready(key) == [state |-> "ready", key |-> key, thrown |-> NonError]

Threw(e) == [state |-> "threw", key |-> NoKey, thrown |-> e]

KeyFromPrivateKey(cfg) == [from |-> "privateKey", secret |-> cfg.privateKey]

KeyFromMnemonic(cfg) ==
    [from |-> "mnemonic", secret |-> cfg.mnemonic, path |-> DerivedPath(cfg)]

\* a constructor that looks at the mnemonic first
EvmMcpWallet_MnemonicFirst(cfg) ==
    IF Truthy(cfg.mnemonic) THEN Ready(KeyFromMnemonic(cfg))
    ELSE IF Truthy(cfg.privateKey) THEN Ready(KeyFromPrivateKey(cfg))
    ELSE Threw(MkError(Text("Either privateKey or mnemonic must be provided")))

\* new EvmMcpWallet(config)
EvmMcpWallet(cfg) ==
    IF Truthy(cfg.privateKey) THEN Ready(KeyFromPrivateKey(cfg))
    ELSE IF Truthy(cfg.mnemonic) THEN Ready(KeyFromMnemonic(cfg))
    ELSE Threw(MkError(Text("Either privateKey or mnemonic must be provided")))

\* -------------------------------------------------------------- registry
Tool(name, tier) == [name |-> name, tier |-> tier]

\* registration that ignores allowedOperations
registerTools_AllTiers(cfg, ts) ==
    ts \o << Tool("wallet_getAddress", "read"), Tool("wallet_getBalance", "read"),
             Tool("wallet_signTransaction", "prepare"),
             Tool("wallet_getTokenBalance", "info") >>
       \o (IF cfg.requireConfirmation
           THEN << Tool("wallet_sendTransaction", "transaction") >> ELSE << >>)

\* registration that pushes the send tool without looking at allowedOperations
registerTools_SendUngated(cfg, ts) ==
    ts
    \o (IF Includes(cfg.allowedOperations, "read")
        THEN << Tool("wallet_getAddress", "read"), Tool("wallet_getBalance", "read") >>
        ELSE << >>)
    \o (IF Includes(cfg.allowedOperations, "prepare")
        THEN << Tool("wallet_signTransaction", "prepare") >> ELSE << >>)
    \o (IF Includes(cfg.allowedOperations, "info")
        THEN << Tool("wallet_getTokenBalance", "info") >> ELSE << >>)
    \o (IF cfg.requireConfirmation
        THEN << Tool("wallet_sendTransaction", "transaction") >> ELSE << >>)

registerTools(cfg, ts) ==
    ts
    \o (IF Includes(cfg.allowedOperations, "read")
        THEN << Tool("wallet_getAddress", "read"), Tool("wallet_getBalance", "read") >>
        ELSE << >>)
    \o (IF Includes(cfg.allowedOperations, "prepare")
        THEN << Tool("wallet_signTransaction", "prepare") >> ELSE << >>)
    \o (IF Includes(cfg.allowedOperations, "info")
        THEN << Tool("wallet_getTokenBalance", "info") >> ELSE << >>)
    \o (IF Includes(cfg.allowedOperations, "transaction") /\ cfg.requireConfirmation
        THEN << Tool("wallet_sendTransaction", "transaction") >> ELSE << >>)

\* the tier under whose test registerTools pushes the tool of that name
TierOf(name) ==
    CASE name \in {"wallet_getAddress", "wallet_getBalance"} -> "read"
      [] name = "wallet_signTransaction" -> "prepare"
      [] name = "wallet_getTokenBalance" -> "info"
      [] name = "wallet_sendTransaction" -> "transaction"
      [] OTHER -> "none"

\* this.tools.find((t) => t.name === name): index of the first match, 0 if none
FindTool(ts, name) ==
    IF \E i \in 1..Len(ts) : ts[i].name = name
    THEN CHOOSE i \in 1..Len(ts) :
            /\ ts[i].name = name
            /\ \A j \in 1..(i - 1) : ts[j].name # name
    ELSE 0

\* ------------------------------------------------------------ the wallet
WalletOp(name) ==
    CASE name = "wallet_getAddress" -> "getAddress"
      [] name = "wallet_getBalance" -> "getBalance"
      [] name = "wallet_signTransaction" -> "signTransaction"
      [] name = "wallet_getTokenBalance" -> "getTokenBalance"
      [] OTHER -> "sendTransaction"

WalletErrors ==
    { MkError(Text("insufficient funds")),
      MkError(JSONstringify(JSNull)),
      MkError(JSONstringify(JSNumber)),
      MkError(JSONstringify([code |-> "NEED_CONFIRMATION", message |-> Text("x")])),
      NonError }

WalletValues == { "v1" }

Resolved(v) == [ok |-> TRUE, value |-> v, error |-> NonError]

Rejected(e) == [ok |-> FALSE, value |-> "", error |-> e]

\* getAddress only reads a field of the ethers wallet; the others do I/O.
WalletOutcomes(op) ==
    IF op = "getAddress"
    THEN { Resolved(v) : v \in WalletValues }
    ELSE { Resolved(v) : v \in WalletValues } \cup { Rejected(e) : e \in WalletErrors }

\* ---------------------------------------------------- pending-call store
\* an entry stored as already confirmed
NewEntry_Confirmed(params, t) == [params |-> params, status |-> "confirmed", createdAt |-> t]

NewEntry(params, t) == [params |-> params, status |-> "pending", createdAt |-> t]

\* pendingConfirmations.set(txId, entry)
MapSet(m, k, v) == [x \in (DOMAIN m) \cup {k} |-> IF x = k THEN v ELSE m[x]]

\* pendingTx.status = s; pendingConfirmations.set(txId, pendingTx)
SetStatus(m, k, s) == MapSet(m, k, [m[k] EXCEPT !.status = s])

\* an id generator that may return an id it returned before
randomUUID_Reuse(used) == Ids

\* crypto.randomUUID(): a token that no earlier call returned
randomUUID(used) == Ids \ used

\* the handler without its confirmation gate
HandlerDefers_NoGate(cfg) == FALSE

\* if (this.config.requireConfirmation) in the wallet_sendTransaction handler
HandlerDefers(cfg) == cfg.requireConfirmation

NotFoundError(txId) == MkError(TextWith("Transaction with ID ${txId} not found", txId))

ToolNotFoundError(name) == MkError(TextWith("Tool ${name} not found", name))

\* ------------------------------------------------------------------ Init
NoResp == [none |-> TRUE]

\* no wallet settlement belongs to the operation
NoOutcome == [ok |-> TRUE, value |-> "", error |-> NonError]

NoOp == [op |-> "none", name |-> "", txId |-> NoId, params |-> NoParams,
         before |-> << >>, resp |-> NoResp, outcome |-> NoOutcome]

\* The last operation: what was asked, the store it found, what it answered,
\* and (for a settled await) how the wallet settled.
OpSettled(o, n, id, p, r, w) ==
    [op |-> o, name |-> n, txId |-> id, params |-> p,
     before |-> pendingConfirmations, resp |-> r, outcome |-> w]

Op(o, n, id, p, r) == OpSettled(o, n, id, p, r, NoOutcome)

Init ==
    /\ walletConfig = TestWalletConfig
    /\ wallet = EvmMcpWallet(walletConfig)
    /\ config \in ConfigChoices
    /\ tools = << >>
    /\ starts = 0
    /\ connected = FALSE
    /\ pendingConfirmations = << >>
    /\ issued = {}
    /\ now = 0
    /\ sent = [i \in Ids |-> 0]
    /\ toolSends = 0
    /\ inflight = EmptyBag
    /\ lastOp = NoOp

\* --------------------------------------------------------------- actions
\* a start() that connects the transport and leaves the registry as it is
Start_ConnectOnly ==
    /\ wallet.state = "ready"
    /\ starts < MaxStarts
    /\ starts' = starts + 1
    /\ connected' = TRUE
    /\ lastOp' = Op("start", "", NoId, NoParams, NoResp)
    /\ UNCHANGED << walletConfig, wallet, config, tools, pendingConfirmations, issued, now,
                    sent, toolSends, inflight >>

\* start(): registerTools(), then connect the transport.
Start ==
    /\ wallet.state = "ready"
    /\ starts < MaxStarts
    /\ starts' = starts + 1
    /\ tools' = registerTools(config, tools)
    /\ connected' = TRUE
    /\ lastOp' = Op("start", "", NoId, NoParams, NoResp)
    /\ UNCHANGED << walletConfig, wallet, config, pendingConfirmations, issued, now, sent, toolSends, inflight >>

Suspended(kind, name, txId, params) ==
    [kind |-> kind, name |-> name, txId |-> txId, params |-> params]

\* number of suspended calls of one kind
InflightOf(kind) ==
    BagCardinality([c \in { d \in BagToSet(inflight) : d.kind = kind } |-> inflight[c]])

\* CallToolRequestSchema handler up to its first wallet await (or its return).
CallTool(name, params) ==
    /\ connected
    /\ UNCHANGED << walletConfig, wallet, config, tools, starts, connected, now, sent >>
    /\ IF FindTool(tools, name) = 0
       THEN /\ lastOp' = Op("call", name, NoId, params, CatchResponse(ToolNotFoundError(name)))
            /\ UNCHANGED << pendingConfirmations, issued, toolSends, inflight >>
       ELSE IF name = "wallet_sendTransaction" /\ HandlerDefers(config)
       THEN \E txId \in randomUUID(issued) :
              /\ pendingConfirmations' = MapSet(pendingConfirmations, txId, NewEntry(params, now))
              /\ issued' = issued \cup {txId}
              /\ lastOp' = Op("call", name, txId, params,
                              CatchResponse(NeedConfirmationError(txId)))
              /\ UNCHANGED << toolSends, inflight >>
       ELSE /\ InflightOf("tool") < MaxToolInflight
            /\ name = "wallet_sendTransaction" => toolSends < MaxSends
            /\ inflight' = inflight (+) SetToBag({Suspended("tool", name, NoId, NoParams)})
            /\ toolSends' = IF name = "wallet_sendTransaction" THEN toolSends + 1 ELSE toolSends
            /\ lastOp' = Op("call", name, NoId, params, [awaiting |-> WalletOp(name)])
            /\ UNCHANGED << pendingConfirmations, issued >>

\* The wallet operation of a suspended tool call settles.
CallToolSettle(c, outcome) ==
    /\ BagIn(c, inflight)
    /\ c.kind = "tool"
    /\ outcome \in WalletOutcomes(WalletOp(c.name))
    /\ inflight' = inflight (-) SetToBag({c})
    /\ lastOp' = OpSettled("callSettled", c.name, NoId, c.params,
                           IF outcome.ok
                           THEN [result |-> outcome.value]
                           ELSE CatchResponse(outcome.error),
                           outcome)
    /\ UNCHANGED << walletConfig, wallet, config, tools, starts, connected, pendingConfirmations, issued,
                    now, sent, toolSends >>

\* confirmTransaction(txId) up to await this.wallet.sendTransaction(...)
ConfirmTransaction(txId) ==
    /\ UNCHANGED << walletConfig, wallet, config, tools, starts, connected, issued, now, toolSends >>
    /\ IF txId \notin DOMAIN pendingConfirmations
       THEN /\ lastOp' = Op("confirm", "", txId, NoParams, [thrown |-> NotFoundError(txId)])
            /\ UNCHANGED << pendingConfirmations, sent, inflight >>
       ELSE /\ InflightOf("confirm") < MaxInflight
            /\ sent[txId] < MaxSends
            /\ pendingConfirmations' = SetStatus(pendingConfirmations, txId, "confirmed")
            /\ sent' = [sent EXCEPT ![txId] = @ + 1]
            /\ inflight' = inflight (+) SetToBag({Suspended("confirm", "", txId,
                                                   pendingConfirmations[txId].params)})
            /\ lastOp' = Op("confirm", "", txId, pendingConfirmations[txId].params,
                            [awaiting |-> "sendTransaction"])

\* a confirmTransaction that forgets to return the hash
ConfirmResult_NoReturn(outcome) ==
    IF outcome.ok THEN [returned |-> "undefined"] ELSE [thrown |-> outcome.error]

\* return result / throw error, after the awaited send
ConfirmResult(outcome) ==
    IF outcome.ok THEN [returned |-> outcome.value] ELSE [thrown |-> outcome.error]

\* The send of a suspended confirmTransaction settles: return result / throw error.
ConfirmSettle(c, outcome) ==
    /\ BagIn(c, inflight)
    /\ c.kind = "confirm"
    /\ outcome \in WalletOutcomes("sendTransaction")
    /\ inflight' = inflight (-) SetToBag({c})
    /\ lastOp' = OpSettled("confirmSettled", "", c.txId, c.params,
                           ConfirmResult(outcome), outcome)
    /\ UNCHANGED << walletConfig, wallet, config, tools, starts, connected, pendingConfirmations, issued,
                    now, sent, toolSends >>

\* a rejectTransaction that records the rejection of an id it does not know
RejectTransaction_Upsert(txId) ==
    /\ UNCHANGED << walletConfig, wallet, config, tools, starts, connected, issued, now, sent, toolSends, inflight >>
    /\ pendingConfirmations' =
          MapSet(pendingConfirmations, txId,
                 [params |-> IF txId \in DOMAIN pendingConfirmations
                             THEN pendingConfirmations[txId].params ELSE NoParams,
                  status |-> "rejected",
                  createdAt |-> IF txId \in DOMAIN pendingConfirmations
                                THEN pendingConfirmations[txId].createdAt ELSE now])
    /\ lastOp' = Op("reject", "", txId, NoParams, [returned |-> "undefined"])

\* rejectTransaction(txId)
RejectTransaction(txId) ==
    /\ UNCHANGED << walletConfig, wallet, config, tools, starts, connected, issued, now, sent, toolSends, inflight >>
    /\ IF txId \notin DOMAIN pendingConfirmations
       THEN /\ lastOp' = Op("reject", "", txId, NoParams, [thrown |-> NotFoundError(txId)])
            /\ UNCHANGED pendingConfirmations
       ELSE /\ pendingConfirmations' = SetStatus(pendingConfirmations, txId, "rejected")
            /\ lastOp' = Op("reject", "", txId, pendingConfirmations[txId].params,
                            [returned |-> "undefined"])

\* ListToolsRequestSchema handler
ListTools ==
    /\ connected
    /\ lastOp' = Op("list", "", NoId, NoParams, [tools |-> tools])
    /\ UNCHANGED << walletConfig, wallet, config, tools, starts, connected, pendingConfirmations, issued,
                    now, sent, toolSends, inflight >>

\* Date.now() advances.
Tick ==
    /\ now < MaxTime
    /\ now' = now + 1
    /\ UNCHANGED << walletConfig, wallet, config, tools, starts, connected, pendingConfirmations, issued,
                    sent, toolSends, inflight, lastOp >>

Next ==
    \/ Start
    \/ \E name \in RequestNames : \E params \in ParamsFor(name) : CallTool(name, params)
    \/ \E c \in BagToSet(inflight), outcome \in WalletOutcomes("sendTransaction") :
          CallToolSettle(c, outcome)
    \/ \E txId \in Ids : ConfirmTransaction(txId)
    \/ \E c \in BagToSet(inflight), outcome \in WalletOutcomes("sendTransaction") :
          ConfirmSettle(c, outcome)
    \/ \E txId \in Ids : RejectTransaction(txId)
    \/ ListTools
    \/ Tick

Spec == Init /\ [][Next]_vars

\* ------------------------------------------------- creating the server
\* createMcpServer(walletConfig, serverConfig): the McpServer constructor
\* begins with new EvmMcpWallet(walletConfig), whose throw it does not catch.
CreateMcpServer ==
    /\ wallet = NotConstructed
    /\ wallet' = EvmMcpWallet(walletConfig)
    /\ lastOp' = Op("create", "", NoId, NoParams,
                    IF EvmMcpWallet(walletConfig).state = "ready"
                    THEN [returned |-> "McpServer"]
                    ELSE [thrown |-> EvmMcpWallet(walletConfig).thrown])
    /\ UNCHANGED << walletConfig, config, tools, starts, connected, pendingConfirmations,
                    issued, now, sent, toolSends, inflight >>

\* before createMcpServer is called, with any wallet and server configuration
InitCreate ==
    /\ walletConfig \in WalletConfigChoices
    /\ wallet = NotConstructed
    /\ config \in ConfigChoices
    /\ tools = << >>
    /\ starts = 0
    /\ connected = FALSE
    /\ pendingConfirmations = << >>
    /\ issued = {}
    /\ now = 0
    /\ sent = [i \in Ids |-> 0]
    /\ toolSends = 0
    /\ inflight = EmptyBag
    /\ lastOp = NoOp

NextCreate ==
    \/ CreateMcpServer
    \/ Start
    \/ ListTools

SpecCreate == InitCreate /\ [][NextCreate]_vars

\* ------------------------------------------- the stdio wallet server
\* The server 'mcp-wallet-mcp': a module-level config and wallet, a fixed tool
\* listing and one call handler that switches on the tool name.

\* the wallet initializeWallet returns when there is no key
NullWallet == [state |-> "null", key |-> NoKey, thrown |-> NonError]

initializeWallet(cfg) ==
    IF Truthy(cfg.privateKey) THEN Ready(KeyFromPrivateKey(cfg))
    ELSE IF Truthy(cfg.mnemonic) THEN Ready(KeyFromMnemonic(cfg))
    ELSE NullWallet

\* getWalletConfig(): MCP_PRIVATE_KEY, MCP_MNEMONIC and MCP_ADDRESS from the
\* environment; the process exits when none of the three is set.
getWalletConfig ==
    { c \in WalletConfigChoices :
        /\ c.derivationPath = Undefined
        /\ c.accountIndex = Undefined
        /\ Truthy(c.privateKey) \/ Truthy(c.mnemonic) \/ Truthy(c.address) }

\* the tools array of the ListToolsRequestSchema handler
ListedTools ==
    << "mcp_wallet_address", "mcp_wallet_balance", "mcp_token_transfer",
       "mcp_token_price", "mcp_swap", "mcp_bridge" >>

\* the names a client may send
ServerRequestNames ==
    { "mcp_wallet_address", "mcp_wallet_balance", "mcp_token_transfer",
      "mcp_token_price", "mcp_swap", "mcp_bridge", "mcp_create_token", "mcp_unknown" }

\* ethers.isAddress holds of the first, not of the second
RecipientAddress == Text("0x1234567890123456789012345678901234567890")

RecipientGarbage == Text("garbage")

isAddress(r) == r = RecipientAddress

\* request.params.arguments: missing, or an object whose recipient (the field
\* `to` of mcp_token_transfer) is an address, is not one, or is left out
ServerArgsChoices ==
    { Undefined } \cup
    { [recipient |-> r] : r \in { RecipientAddress, RecipientGarbage, Undefined } }

\* the { content: [{ type: 'text', text }], isError } a handler returns
Content(text, isError) == [content |-> text, isError |-> isError]

\* the catch block: `Error: ${error instanceof Error ? error.message : String(error)}`
ServerCatch(error) == Content(TextWith("Error: ${message}", error.message), TRUE)

\* the message of the `if (!wallet) throw` of each case
WalletNotAvailable(name) ==
    CASE name = "mcp_token_transfer" ->
            MkError(Text("Wallet not available for sending transactions"))
      [] name = "mcp_swap" -> MkError(Text("Wallet not available for swapping"))
      [] name = "mcp_bridge" -> MkError(Text("Wallet not available for bridging"))
      [] OTHER -> MkError(Text("Wallet not available for token deployment"))

\* the cases that end in wallet.sendTransaction (transferTokens, executeSwap,
\* executeBridge, deployToken)
SendingCases == { "mcp_token_transfer", "mcp_swap", "mcp_bridge", "mcp_create_token" }

\* the cases that await a read of the chain or of the price service
ReadingCases == { "mcp_wallet_balance", "mcp_token_price" }

\* resolveAddress(recipient) throws: the recipient is given and is no address
\* (mcp_create_token takes no recipient)
RecipientRejected(name, args) ==
    /\ name \in { "mcp_token_transfer", "mcp_swap", "mcp_bridge" }
    /\ IF name = "mcp_token_transfer"
       THEN ~isAddress(args.recipient)
       ELSE Truthy(args.recipient) /\ ~isAddress(args.recipient)

ServerOp(name) ==
    CASE name \in SendingCases -> "sendTransaction"
      [] name = "mcp_wallet_balance" -> "getBalance"
      [] OTHER -> "getTokenPrice"

\* runServer(): server.connect(transport)
RunServer ==
    /\ ~connected
    /\ connected' = TRUE
    /\ lastOp' = Op("start", "", NoId, NoParams, NoResp)
    /\ UNCHANGED << walletConfig, wallet, config, tools, starts, pendingConfirmations,
                    issued, now, sent, toolSends, inflight >>

\* ListToolsRequestSchema handler of the stdio server
ServerListTools ==
    /\ connected
    /\ lastOp' = Op("list", "", NoId, NoParams, [tools |-> ListedTools])
    /\ UNCHANGED << walletConfig, wallet, config, tools, starts, connected,
                    pendingConfirmations, issued, now, sent, toolSends, inflight >>

\* CallToolRequestSchema handler of the stdio server, up to the await of the
\* operation its case ends in (or up to its return).
ServerCallTool(name, args) ==
    /\ connected
    /\ UNCHANGED << walletConfig, wallet, config, tools, starts, connected,
                    pendingConfirmations, issued, now, sent >>
    /\ IF args = Undefined
       THEN /\ lastOp' = Op("call", name, NoId, NoParams,
                            ServerCatch(MkError(Text("No arguments provided"))))
            /\ UNCHANGED << toolSends, inflight >>
       ELSE IF name = "mcp_wallet_address"
       THEN /\ lastOp' = Op("call", name, NoId, NoParams,
                            IF wallet.state = "ready"
                            THEN Content(TextWith("address of", wallet.key), FALSE)
                            ELSE IF Truthy(walletConfig.address)
                            THEN Content(walletConfig.address, FALSE)
                            ELSE ServerCatch(MkError(Text("No wallet or address available"))))
            /\ UNCHANGED << toolSends, inflight >>
       ELSE IF name \in SendingCases /\ wallet.state # "ready"
       THEN /\ lastOp' = Op("call", name, NoId, NoParams,
                            ServerCatch(WalletNotAvailable(name)))
            /\ UNCHANGED << toolSends, inflight >>
       ELSE IF RecipientRejected(name, args)
       THEN /\ lastOp' = Op("call", name, NoId, NoParams,
                            ServerCatch(MkError(TextWith(
                                "Invalid recipient address or ENS name: ${to}",
                                args.recipient))))
            /\ UNCHANGED << toolSends, inflight >>
       ELSE IF name \in SendingCases \cup ReadingCases
       THEN /\ InflightOf("tool") < MaxToolInflight
            /\ name \in SendingCases => toolSends < MaxSends
            /\ inflight' = inflight (+) SetToBag({Suspended("tool", name, NoId, NoParams)})
            /\ toolSends' = IF name \in SendingCases THEN toolSends + 1 ELSE toolSends
            /\ lastOp' = Op("call", name, NoId, NoParams, [awaiting |-> ServerOp(name)])
       ELSE /\ lastOp' = Op("call", name, NoId, NoParams,
                            Content(TextWith("Unknown tool: ${name}", name), TRUE))
            /\ UNCHANGED << toolSends, inflight >>

\* The awaited operation of a suspended call settles: the case returns its
\* text, or the catch block answers.
ServerSettle(c, outcome) ==
    /\ BagIn(c, inflight)
    /\ c.kind = "tool"
    /\ outcome \in WalletOutcomes(ServerOp(c.name))
    /\ inflight' = inflight (-) SetToBag({c})
    /\ lastOp' = OpSettled("callSettled", c.name, NoId, c.params,
                           IF outcome.ok
                           THEN Content(TextWith("result of ${name}", outcome.value), FALSE)
                           ELSE ServerCatch(outcome.error),
                           outcome)
    /\ UNCHANGED << walletConfig, wallet, config, tools, starts, connected,
                    pendingConfirmations, issued, now, sent, toolSends >>

\* the module has been loaded: config and wallet are set, no transport yet
InitServer ==
    /\ walletConfig \in getWalletConfig
    /\ wallet = initializeWallet(walletConfig)
    /\ config = [allowedOperations |-> << >>, requireConfirmation |-> TRUE]
    /\ tools = << >>
    /\ starts = 0
    /\ connected = FALSE
    /\ pendingConfirmations = << >>
    /\ issued = {}
    /\ now = 0
    /\ sent = [i \in Ids |-> 0]
    /\ toolSends = 0
    /\ inflight = EmptyBag
    /\ lastOp = NoOp

NextServer ==
    \/ RunServer
    \/ ServerListTools
    \/ \E name \in ServerRequestNames, args \in ServerArgsChoices :
          ServerCallTool(name, args)
    \/ \E c \in BagToSet(inflight), outcome \in WalletOutcomes("sendTransaction") :
          ServerSettle(c, outcome)

SpecServer == InitServer /\ [][NextServer]_vars

\* ------------------------------------------------------ observation helpers
\* status of the entry the last operation addressed, as that operation found it
Prior(o) == IF o.txId \in DOMAIN o.before THEN o.before[o.txId].status ELSE "absent"

IsAlreadyResolved(r) ==
    /\ "thrown" \in DOMAIN r
    /\ r.thrown.isError
    /\ "text" \in DOMAIN r.thrown.message
    /\ r.thrown.message.text = "AlreadyResolved"

IsNeedConfirmation(r) ==
    /\ "error" \in DOMAIN r
    /\ "code" \in DOMAIN r.error
    /\ r.error.code = "NEED_CONFIRMATION"

InvokesSend(r) == "awaiting" \in DOMAIN r /\ r.awaiting = "sendTransaction"

TransactionEnabled == Includes(config.allowedOperations, "transaction")

SendCall(o) == o.op = "call" /\ o.name = "wallet_sendTransaction"

ReadTierNames ==
    { "wallet_getAddress", "wallet_getBalance", "wallet_signTransaction",
      "wallet_getTokenBalance" }

\* ---------------------------------------------------------------- claims
\* C1: a confirmTransaction(id) that finds the entry already confirmed by an
\* earlier confirmTransaction(id) fails with AlreadyResolved and does not send.
C1_SecondConfirmAlreadyResolved ==
    (lastOp.op = "confirm" /\ Prior(lastOp) = "confirmed")
        => (IsAlreadyResolved(lastOp.resp) /\ sent[lastOp.txId] = 1)

\* C2: at-most-one broadcast: wallet.sendTransaction is invoked at most once
\* for each confirmation id.
C2_AtMostOneBroadcast == \A id \in Ids : sent[id] <= 1

\* C3: a rejected call is never executed: no entry is rejected while a send
\* was made for it, and a confirm that finds the entry rejected does not send.
C3_RejectedNeverExecuted ==
    /\ \A id \in DOMAIN pendingConfirmations :
          pendingConfirmations[id].status = "rejected" => sent[id] = 0
    /\ (lastOp.op = "confirm" /\ Prior(lastOp) = "rejected") => ~InvokesSend(lastOp.resp)

\* C4: reject after confirm, confirm after reject and reject after reject fail
\* with AlreadyResolved.
C4_ResolvedIdFailsAlreadyResolved ==
    ( \/ (lastOp.op = "reject" /\ Prior(lastOp) \in {"confirmed", "rejected"})
      \/ (lastOp.op = "confirm" /\ Prior(lastOp) = "rejected") )
        => IsAlreadyResolved(lastOp.resp)

\* C5: confirmed and rejected are absorbing: no step changes the status of an
\* entry that is no longer pending, and no entry goes back to pending.
C5_StatusAbsorbing ==
    [][ \A id \in DOMAIN pendingConfirmations :
          /\ id \in DOMAIN pendingConfirmations'
          /\ pendingConfirmations[id].status # "pending"
                => pendingConfirmations'[id].status = pendingConfirmations[id].status
      ]_vars

\* C6: while requireConfirmation is true, wallet.sendTransaction is invoked only
\* inside confirmTransaction(id) for an id that a wallet_sendTransaction call
\* issued, never inside the handling of a tool call.
C6_SendOnlyInsideConfirm ==
    config.requireConfirmation =>
        /\ toolSends = 0
        /\ \A id \in Ids : sent[id] > 0 => id \in issued
        /\ lastOp.op = "call" => ~InvokesSend(lastOp.resp)
        /\ \A c \in BagToSet(inflight) : c.kind = "tool" => c.name # "wallet_sendTransaction"

C6_Witness ==
    /\ config.requireConfirmation
    /\ lastOp.op = "confirm"
    /\ InvokesSend(lastOp.resp)
    /\ sent[lastOp.txId] = 1

\* C7: with the transaction tier enabled and requireConfirmation = true, a
\* wallet_sendTransaction call answers NEED_CONFIRMATION and leaves exactly one
\* new entry, pending, with the call's parameters, under an id that was not
\* issued before; the entries that existed are untouched.
C7_DeferredCallCreatesFreshPending ==
    (SendCall(lastOp) /\ TransactionEnabled /\ config.requireConfirmation) =>
        /\ IsNeedConfirmation(lastOp.resp)
        /\ lastOp.txId \in Ids
        /\ lastOp.txId \notin DOMAIN lastOp.before
        /\ DOMAIN pendingConfirmations = (DOMAIN lastOp.before) \cup {lastOp.txId}
        /\ issued = DOMAIN pendingConfirmations
        /\ pendingConfirmations[lastOp.txId].status = "pending"
        /\ pendingConfirmations[lastOp.txId].params = lastOp.params
        /\ pendingConfirmations[lastOp.txId].createdAt <= now
        /\ \A id \in DOMAIN lastOp.before : pendingConfirmations[id] = lastOp.before[id]

C7_Witness ==
    /\ SendCall(lastOp) /\ TransactionEnabled /\ config.requireConfirmation
    /\ IsNeedConfirmation(lastOp.resp)
    /\ DOMAIN lastOp.before # {}
    /\ \E id \in DOMAIN lastOp.before : lastOp.before[id].params # lastOp.params

C9_DirectSendWithoutConfirmation ==
    (SendCall(lastOp) /\ TransactionEnabled /\ ~config.requireConfirmation) =>
        /\ InvokesSend(lastOp.resp)
        /\ pendingConfirmations = lastOp.before

\* C10: the response of a read, prepare or info tool is never a
\* NEED_CONFIRMATION signal, whatever the wallet returned or raised.
C10_NoConfirmationSignalFromReadTools ==
    (lastOp.op \in {"call", "callSettled"} /\ lastOp.name \in ReadTierNames)
        => ~IsNeedConfirmation(lastOp.resp)

\* -------------------------------------------------- claims C11 .. C20
Registered(name) == FindTool(tools, name) # 0

IsErrorResponse(r) == DOMAIN r = {"error"}

InvokesWallet(r) == "awaiting" \in DOMAIN r

\* C11: a call to a registered tool whose parameters fail the tool's input
\* schema is answered with an error and the wallet is not invoked for it.
C11_InvalidParamsNeverReachWallet ==
    (lastOp.op = "call" /\ Registered(lastOp.name)
        /\ ~ValidParams(lastOp.name, lastOp.params))
        => (IsErrorResponse(lastOp.resp) /\ ~InvokesWallet(lastOp.resp))

\* C12: a wallet_sendTransaction call whose parameters fail the input schema is
\* answered with an error that is not NEED_CONFIRMATION and leaves the
\* pending-confirmation store as it was.
C12_InvalidSendCreatesNoEntry ==
    (SendCall(lastOp) /\ Registered(lastOp.name)
        /\ ~ValidParams(lastOp.name, lastOp.params))
        => /\ IsErrorResponse(lastOp.resp)
           /\ ~IsNeedConfirmation(lastOp.resp)
           /\ DOMAIN pendingConfirmations = DOMAIN lastOp.before

\* C13: confirmTransaction and rejectTransaction on an id that was never issued
\* throw the not-found error, change no entry and invoke no send.
C13_UnknownIdNotFound ==
    (lastOp.op \in {"confirm", "reject"} /\ lastOp.txId \notin issued) =>
        /\ DOMAIN lastOp.resp = {"thrown"}
        /\ lastOp.resp.thrown.isError
        /\ lastOp.resp.thrown.message.text = "Transaction with ID ${txId} not found"
        /\ lastOp.resp.thrown.message.arg = lastOp.txId
        /\ DOMAIN pendingConfirmations = DOMAIN lastOp.before
        /\ \A id \in DOMAIN pendingConfirmations :
              pendingConfirmations[id] = lastOp.before[id]
        /\ sent[lastOp.txId] = 0
        /\ \A c \in BagToSet(inflight) : c.txId # lastOp.txId

C13_Witness ==
    /\ lastOp.op = "reject"
    /\ lastOp.txId \notin issued
    /\ DOMAIN pendingConfirmations # {}
    /\ "thrown" \in DOMAIN lastOp.resp

\* the widest expiry window that the modelled clock can exceed
ExpiryWindow == MaxTime - 1

\* C14: once more than the expiry window has elapsed since createdAt, no step
\* sends the entry's transaction or changes its status.
C14_ExpiredEntryUnreachable ==
    [][ \A id \in DOMAIN pendingConfirmations :
          (now - pendingConfirmations[id].createdAt > ExpiryWindow)
             => /\ sent'[id] = sent[id]
                /\ pendingConfirmations'[id].status = pendingConfirmations[id].status
      ]_vars

\* C15: confirmTransaction(id) on a pending entry invokes wallet.sendTransaction
\* once, with the parameters stored when the call was deferred, and returns the
\* hash the send resolved with.
C15_ConfirmSendsStoredParams ==
    /\ (lastOp.op = "confirm" /\ Prior(lastOp) = "pending") =>
          /\ InvokesSend(lastOp.resp)
          /\ lastOp.params = lastOp.before[lastOp.txId].params
          /\ sent[lastOp.txId] = 1
          /\ CopiesIn(Suspended("confirm", "", lastOp.txId,
                                lastOp.before[lastOp.txId].params), inflight) = 1
    /\ (lastOp.op = "confirmSettled" /\ lastOp.outcome.ok) =>
          /\ DOMAIN lastOp.resp = {"returned"}
          /\ lastOp.resp.returned = lastOp.outcome.value
          /\ lastOp.resp.returned \in WalletValues

C15_Witness ==
    /\ lastOp.op = "confirmSettled"
    /\ lastOp.outcome.ok
    /\ sent[lastOp.txId] = 1
    /\ lastOp.params \in ParamsChoices

\* C16: a failed send is thrown to the caller of confirmTransaction, and a
\* confirmTransaction(id) that follows the failure does not send again.
C16_FailedSendNotRetried ==
    [][ (lastOp.op = "confirmSettled" /\ ~lastOp.outcome.ok) =>
          /\ lastOp.resp = [thrown |-> lastOp.outcome.error]
          /\ (lastOp'.op = "confirm" /\ lastOp'.txId = lastOp.txId)
                => ~InvokesSend(lastOp'.resp)
      ]_vars

\* C17: a call naming a tool that is not registered, or whose tier is not in
\* allowedOperations, is answered with the tool-not-found error, invokes no
\* wallet operation and creates no pending entry.
C17_UnknownToolRejected ==
    (lastOp.op = "call" /\ ~Includes(config.allowedOperations, TierOf(lastOp.name))) =>
        /\ IsErrorResponse(lastOp.resp)
        /\ DOMAIN lastOp.resp.error = {"code", "message"}
        /\ lastOp.resp.error.code = "TOOL_ERROR"
        /\ lastOp.resp.error.message = TextWith("Tool ${name} not found", lastOp.name)
        /\ ~InvokesWallet(lastOp.resp)
        /\ DOMAIN pendingConfirmations = DOMAIN lastOp.before
        /\ \A c \in BagToSet(inflight) : c.name # lastOp.name

C17_Witness ==
    /\ lastOp.op = "call"
    /\ lastOp.name = "wallet_getBalance"
    /\ ~Includes(config.allowedOperations, "read")
    /\ Len(tools) > 0
    /\ IsErrorResponse(lastOp.resp)

\* a string of the model: a text or the JSON text of a value
IsString(x) == DOMAIN x \subseteq {"text", "arg"} \/ DOMAIN x = {"json"}

\* C18: every tool-call response is {result}, {error: {code: NEED_CONFIRMATION,
\* confirmationId}} or {error: {code, message}} with a string message.
C18_ResponseShape ==
    (lastOp.op \in {"call", "callSettled"} /\ ~InvokesWallet(lastOp.resp)) =>
        \/ DOMAIN lastOp.resp = {"result"}
        \/ /\ DOMAIN lastOp.resp = {"error"}
           /\ \/ /\ DOMAIN lastOp.resp.error = {"code", "confirmationId"}
                 /\ lastOp.resp.error.code = "NEED_CONFIRMATION"
              \/ /\ DOMAIN lastOp.resp.error = {"code", "message"}
                 /\ IsString(lastOp.resp.error.message)

\* C19: when the wallet operation of a directly executed tool fails with an
\* Error, the response is an error whose message is that Error's message.
C19_CapabilityErrorVerbatim ==
    (lastOp.op = "callSettled" /\ ~lastOp.outcome.ok /\ lastOp.outcome.error.isError) =>
        /\ IsErrorResponse(lastOp.resp)
        /\ "message" \in DOMAIN lastOp.resp.error
        /\ lastOp.resp.error.message = lastOp.outcome.error.message

\* the names of the tools of every enabled tier, grouped read, prepare, info,
\* transaction
EnabledToolNames ==
    (IF Includes(config.allowedOperations, "read")
     THEN << "wallet_getAddress", "wallet_getBalance" >> ELSE << >>)
    \o (IF Includes(config.allowedOperations, "prepare")
        THEN << "wallet_signTransaction" >> ELSE << >>)
    \o (IF Includes(config.allowedOperations, "info")
        THEN << "wallet_getTokenBalance" >> ELSE << >>)
    \o (IF Includes(config.allowedOperations, "transaction")
        THEN << "wallet_sendTransaction" >> ELSE << >>)

\* C20: the tool listing is exactly the tools of the enabled tiers, in the
\* order read, prepare, info, transaction.
C20_ListingIsEnabledTiersInOrder ==
    lastOp.op = "list" =>
        [i \in 1..Len(lastOp.resp.tools) |-> lastOp.resp.tools[i].name] = EnabledToolNames
\* -------------------------------------------------- claims C21 .. C30
\* C21: after any sequence of start() calls no two registered tools share a
\* name: a registration of a name that is already there adds no descriptor.
C21_ToolNamesUnique ==
    \A i, j \in 1..Len(tools) : tools[i].name = tools[j].name => i = j

AddressOnly(cfg) ==
    Truthy(cfg.address) /\ ~Truthy(cfg.privateKey) /\ ~Truthy(cfg.mnemonic)

\* C25: createMcpServer with a wallet configuration that carries only an
\* address and allowedOperations ['read', 'prepare', 'info'] yields a server.
C25_ReadOnlyModeYieldsServer ==
    (lastOp.op = "create" /\ AddressOnly(walletConfig)
        /\ config.allowedOperations = << "read", "prepare", "info" >>)
        => (wallet.state = "ready" /\ lastOp.resp = [returned |-> "McpServer"])

\* C22: no call of mcp_token_transfer, mcp_swap, mcp_bridge or mcp_create_token
\* invokes wallet.sendTransaction during the handling of the call request.
C22_NoSendDuringToolCall ==
    /\ toolSends = 0
    /\ (lastOp.op = "call" /\ lastOp.name \in SendingCases) => ~InvokesSend(lastOp.resp)

\* C23: every tool name whose call reaches a wallet operation is a name of the
\* tool listing.
C23_CallableToolsAreListed ==
    (lastOp.op = "call" /\ InvokesWallet(lastOp.resp))
        => Includes(ListedTools, lastOp.name)

\* a confirmTransaction(id) was suspended at its send when the last operation,
\* a confirm or reject of the same id, arrived
RacesSuspendedConfirm(o) ==
    /\ o.op \in {"confirm", "reject"}
    /\ o.txId \in DOMAIN o.before
    /\ CopiesIn(Suspended("confirm", "", o.txId, o.before[o.txId].params), inflight)
          > (IF o.op = "confirm" /\ InvokesSend(o.resp) THEN 1 ELSE 0)

\* C26: a confirmTransaction(id) or rejectTransaction(id) that arrives while a
\* confirmTransaction(id) is suspended at its send observes AlreadyResolved,
\* sends nothing and leaves the status as it found it.
C26_RacingTransitionLoses ==
    RacesSuspendedConfirm(lastOp) =>
        /\ IsAlreadyResolved(lastOp.resp)
        /\ ~InvokesSend(lastOp.resp)
        /\ pendingConfirmations[lastOp.txId].status = lastOp.before[lastOp.txId].status

\* C27: an operation other than confirmTransaction and rejectTransaction
\* leaves every entry that existed as it was; a read, prepare or info call
\* leaves the store unchanged; a deferred send adds exactly one entry.
C27_CallHandlerFrame ==
    /\ lastOp.op \notin {"confirm", "reject"} =>
          \A id \in DOMAIN lastOp.before :
             id \in DOMAIN pendingConfirmations /\ pendingConfirmations[id] = lastOp.before[id]
    /\ (lastOp.op \in {"call", "callSettled"} /\ lastOp.name \in ReadTierNames) =>
          pendingConfirmations = lastOp.before
    /\ (SendCall(lastOp) /\ IsNeedConfirmation(lastOp.resp)) =>
          /\ lastOp.txId \notin DOMAIN lastOp.before
          /\ DOMAIN pendingConfirmations = (DOMAIN lastOp.before) \cup {lastOp.txId}

C27_Witness ==
    /\ SendCall(lastOp)
    /\ IsNeedConfirmation(lastOp.resp)
    /\ \E id \in DOMAIN lastOp.before :
          /\ lastOp.before[id].status = "rejected"
          /\ lastOp.before[id].createdAt < now

\* the entry was terminal when the last operation began, and its confirm (if
\* any) has returned
Consumed(id) ==
    /\ id \in DOMAIN lastOp.before
    /\ \/ lastOp.before[id].status = "rejected"
       \/ /\ lastOp.before[id].status = "confirmed"
          /\ \A c \in BagToSet(inflight) : ~(c.kind = "confirm" /\ c.txId = id)
          /\ ~(lastOp.op = "confirmSettled" /\ lastOp.txId = id)

\* C28: an entry that was terminal and consumed when an operation began is no
\* longer in the store when that operation is done.
C28_ResolvedEntriesEvicted ==
    \A id \in Ids : (lastOp.op # "none" /\ Consumed(id)) => id \notin DOMAIN pendingConfirmations

\* C29: under the default configuration no transaction-tier tool is
\* registered, the store stays empty and wallet.sendTransaction is never invoked.
C29_DefaultConfigNeverSends ==
    config = DefaultConfig =>
        /\ \A i \in 1..Len(tools) :
              tools[i].tier # "transaction" /\ tools[i].name # "wallet_sendTransaction"
        /\ pendingConfirmations = << >>
        /\ issued = {}
        /\ toolSends = 0
        /\ \A id \in Ids : sent[id] = 0
        /\ \A c \in BagToSet(inflight) : WalletOp(c.name) # "sendTransaction"
        /\ ~InvokesSend(lastOp.resp)

C29_Witness ==
    /\ config = DefaultConfig
    /\ SendCall(lastOp)
    /\ starts = MaxStarts
    /\ IsErrorResponse(lastOp.resp)

\* the registry holds what one registerTools() pushes
Populated(ts) ==
    /\ Len(ts) >= Len(registerTools(config, << >>))
    /\ SubSeq(ts, 1, Len(registerTools(config, << >>))) = registerTools(config, << >>)

\* C30: whenever the transport is connected registerTools has completed: a
\* list request sees the populated registry and a call of a tool that
\* registerTools registers finds it.
C30_RegisteredBeforeConnected ==
    /\ connected => (starts >= 1 /\ Populated(tools))
    /\ lastOp.op = "list" => Populated(lastOp.resp.tools)
    /\ (lastOp.op = "call" /\ FindTool(registerTools(config, << >>), lastOp.name) # 0) =>
          lastOp.resp # CatchResponse(ToolNotFoundError(lastOp.name))

C30_Witness ==
    /\ lastOp.op = "list"
    /\ starts = 1
    /\ Len(lastOp.resp.tools) > 0
====
